---- MODULE Spec2Model ----
(***************************************************************************)
(* Model of veryl's assignment checker                                     *)
(*   crates/analyzer/src/handlers/check_assignment.rs  (CheckAssignment)   *)
(* The walker state is the record `walker` (the fields of CheckAssignment),*)
(* the symbol table's assignment history is `assign_list`, and `ctx` is    *)
(* the position of the depth-first tree walk that calls the hooks: the     *)
(* stack of nodes whose Before hook has run and whose After hook has not;  *)
(* `unit` is the vocabulary of the source unit being walked and `visited`  *)
(* counts its statements, declarations and conditional expressions walked  *)
(* so far. `probe` is one call of a function on its own (can_assign, and   *)
(* the functions of crates/metadata/src/metadata.rs): its arguments and,   *)
(* once the call has returned, its result. `duo` is the second walker      *)
(* instance of a two-unit analysis: while one walker's hook runs, the      *)
(* other instance and its walk are parked there.                           *)
(***************************************************************************)
EXTENDS Integers, Sequences, FiniteSets, TLC

VARIABLES walker, assign_list, allow_table, unit, ctx, visited, probe, duo

vars == <<walker, assign_list, allow_table, unit, ctx, visited, probe, duo>>

\* ------------------------------------------------------------------ bounds
\* most statements, declarations and conditional expressions in a source unit
MaxNodes == 4
\* most facts in the assignment history
MaxFacts == 2
\* most diagnostics in `errors`
MaxErrors == 2
\* longest full path handed to can_assign on its own
MaxPath == 3
\* deepest directory a project file search starts from
MaxDirs == 3
\* longest project name
MaxName == 3

\* ------------------------------------------------------- position frames
Statement(token, resettable) ==
    [tag |-> "Statement", token |-> token, resettable |-> resettable]

StatementBranch(token, branches, has_default, allow_missing_reset_statement, type) ==
    [tag |-> "StatementBranch", token |-> token, branches |-> branches,
     has_default |-> has_default,
     allow_missing_reset_statement |-> allow_missing_reset_statement,
     type |-> type]

StatementBranchItem(token, index, type) ==
    [tag |-> "StatementBranchItem", token |-> token, index |-> index, type |-> type]

Declaration(token, type) ==
    [tag |-> "Declaration", token |-> token, type |-> type]

DeclarationBranch(token, branches) ==
    [tag |-> "DeclarationBranch", token |-> token, branches |-> branches]

DeclarationBranchItem(token, index) ==
    [tag |-> "DeclarationBranchItem", token |-> token, index |-> index]

\* AssignPosition::push / AssignPosition::pop (Vec push, Vec pop: popping an
\* empty vector returns None and leaves it empty)
push(position, frame) == Append(position, frame)

pop(position) ==
    IF position = <<>> THEN position ELSE SubSeq(position, 1, Len(position) - 1)

\* ------------------------------------------------------------ the symbols
Directions == {"Input", "Output", "Inout", "Ref"}

Kind(tag, direction) == [tag |-> tag, direction |-> direction]

\* The symbol store: SymbolId i names the symbol of kind symbols[i].
symbols ==
    << Kind("Variable", "None"),
       Kind("Port", "Input"), Kind("Port", "Output"),
       Kind("Port", "Inout"), Kind("Port", "Ref"),
       Kind("ModportMember", "Input"), Kind("ModportMember", "Output"),
       Kind("ModportMember", "Inout"), Kind("ModportMember", "Ref"),
       Kind("StructMember", "None"), Kind("UnionMember", "None"),
       Kind("Parameter", "None") >>

SymbolIds == DOMAIN symbols

\* an id no symbol has: symbol_table::get returns None for it
DanglingId == Len(symbols) + 1

IdOf(tag, direction) == CHOOSE i \in SymbolIds : symbols[i] = Kind(tag, direction)

\* symbol_table::get
get(id) ==
    IF id \in SymbolIds THEN [some |-> TRUE, kind |-> symbols[id]]
    ELSE [some |-> FALSE]

\* SymbolKind::to_kind_name
to_kind_name(kind) == kind.tag

\* ------------------------------------------------------------ can_assign
IsOutputLike(kind) ==
    \/ kind.tag = "Port" /\ kind.direction = "Output"
    \/ kind.tag = "Port" /\ kind.direction = "Ref"
    \/ kind.tag = "Port" /\ kind.direction = "Inout"
    \/ kind.tag = "ModportMember" /\ kind.direction = "Output"
    \/ kind.tag = "ModportMember" /\ kind.direction = "Ref"
    \/ kind.tag = "ModportMember" /\ kind.direction = "Inout"

\* a slip in can_assign: a member inherits from its own parent-less leaf, so
\* the root is never consulted
can_assign_LeafOnly(full_path) ==
    IF full_path = <<>> THEN FALSE
    ELSE LET leaf_symbol == get(full_path[Len(full_path)])
         IN  IF ~leaf_symbol.some THEN FALSE
             ELSE \/ leaf_symbol.kind.tag \in {"Variable", "StructMember", "UnionMember"}
                  \/ IsOutputLike(leaf_symbol.kind)

can_assign(full_path) ==
    IF full_path = <<>> THEN FALSE
    ELSE LET leaf_symbol == get(full_path[Len(full_path)])
         IN  IF leaf_symbol.some
             THEN CASE leaf_symbol.kind.tag = "Variable" -> TRUE
                    [] leaf_symbol.kind.tag \in {"StructMember", "UnionMember"} ->
                         LET root_symbol == get(full_path[1])
                         IN  IF root_symbol.some
                             THEN CASE root_symbol.kind.tag = "Variable" -> TRUE
                                    [] IsOutputLike(root_symbol.kind) -> TRUE
                                    [] OTHER -> FALSE
                             ELSE FALSE
                    [] IsOutputLike(leaf_symbol.kind) -> TRUE
                    [] OTHER -> FALSE
             ELSE FALSE

\* ------------------------------------------------- symbol_table interface
\* symbol_table::resolve: the outcome for a reference is a property of the
\* symbol store; the model carries it with the reference.
ResolveErr == [ok |-> FALSE]

ResolveExternal(full_path) ==
    [ok |-> TRUE, found |-> "External", full_path |-> full_path]

ResolveFound(full_path) ==
    [ok |-> TRUE, found |-> "Symbol", full_path |-> full_path,
     symbol |-> [kind |-> symbols[full_path[Len(full_path)]]]]

resolve(reference) == reference.resolve

\* symbol_table::add_assign: appends the fact, with a copy of the position
add_assign(tbl, full_path, position, partial) ==
    Append(tbl, [path |-> full_path, position |-> position, partial |-> partial])

\* AnalyzerError::invalid_assignment(kind, source, identifier, token)
invalid_assignment(kind, identifier) ==
    [error |-> "invalid_assignment", kind |-> kind, identifier |-> identifier]

\* ------------------------------------------------------------ the hooks
\* Each hook maps the walker (self) and its node (arg) to the walker and the
\* assignment history after the call.
Ret(self, tbl) == [self |-> self, assign_list |-> tbl]

last(position) == position[Len(position)]

\* Handler::set_point
set_point(self, p) == [self EXCEPT !.point = p]

\* the else hook without the in_if_expression gate
r_else_Ungated(self, arg) ==
    IF self.point = "Before"
    THEN IF self.assign_position = <<>>
         THEN Ret([self EXCEPT !.panicked = TRUE], assign_list)
         ELSE LET new_position ==
                      IF last(self.assign_position).tag = "StatementBranchItem"
                      THEN StatementBranchItem(arg.else_token, self.branch_index, "Else")
                      ELSE DeclarationBranchItem(arg.else_token, self.branch_index)
              IN  Ret([self EXCEPT
                         !.assign_position = [@ EXCEPT ![Len(@)] = new_position],
                         !.branch_index = @ + 1], assign_list)
    ELSE Ret(self, assign_list)

\* the else hook on a store that keeps a reference to the live position
\* instead of a copy: the rewrite of the top frame shows in the last fact
r_else_Aliased(self, arg) ==
    LET r == r_else_Ungated(self, arg)
        n == Len(assign_list)
        d == Len(self.assign_position)
    IN  IF self.point = "Before" /\ self.in_if_expression = 0
        THEN IF n > 0 /\ d > 0 /\ Len(assign_list[n].position) >= d
             THEN Ret(r.self, [assign_list EXCEPT ![n].position[d] =
                                                      last(r.self.assign_position)])
             ELSE r
        ELSE Ret(self, assign_list)

\* in_if_expression is a Vec<()>: only its length is state
r_else(self, arg) ==
    IF self.point = "Before" /\ self.in_if_expression = 0
    THEN IF self.assign_position = <<>>
         THEN \* last().unwrap() on an empty stack panics
              Ret([self EXCEPT !.panicked = TRUE], assign_list)
         ELSE LET new_position ==
                      IF last(self.assign_position).tag = "StatementBranchItem"
                      THEN StatementBranchItem(arg.else_token, self.branch_index, "Else")
                      ELSE DeclarationBranchItem(arg.else_token, self.branch_index)
              IN  Ret([self EXCEPT
                         !.assign_position = [@ EXCEPT ![Len(@)] = new_position],
                         !.branch_index = @ + 1], assign_list)
    ELSE Ret(self, assign_list)

if_expression(self, arg) ==
    IF self.point = "Before"
    THEN Ret([self EXCEPT !.in_if_expression = @ + 1], assign_list)
    ELSE Ret([self EXCEPT !.in_if_expression = IF @ = 0 THEN 0 ELSE @ - 1], assign_list)

\* recording that leaves the pushed frame on the live stack
record_NoPop(self, tbl, frame, full_path, partial) ==
    LET pushed == push(self.assign_position, frame)
    IN  Ret([self EXCEPT !.assign_position = pushed],
            add_assign(tbl, full_path, pushed, partial))

\* push a frame, record one fact under the pushed position, pop the frame
record(self, tbl, frame, full_path, partial) ==
    LET pushed == push(self.assign_position, frame)
    IN  Ret([self EXCEPT !.assign_position = pop(pushed)],
            add_assign(tbl, full_path, pushed, partial))

\* a let statement hook that checks legality the way an assignment does
let_statement_Checked(self, arg) ==
    IF self.point = "Before" /\ resolve(arg.identifier).ok
    THEN IF can_assign(resolve(arg.identifier).full_path)
         THEN record(self, assign_list, Statement(arg.equ_token, FALSE),
                     resolve(arg.identifier).full_path, FALSE)
         ELSE Ret([self EXCEPT !.errors =
                     Append(@, invalid_assignment("binding", arg.identifier))],
                  assign_list)
    ELSE Ret(self, assign_list)

let_statement(self, arg) ==
    IF self.point = "Before" /\ resolve(arg.identifier).ok
    THEN record(self, assign_list, Statement(arg.equ_token, FALSE),
                resolve(arg.identifier).full_path, FALSE)
    ELSE Ret(self, assign_list)

\* is-partial taken from the selectors of the root alone
expression_identifier_partial_RootOnly(x) ==
    IF x.group = "Scoped"
    THEN x.expression_identifier_scoped_list0 # <<>>
    ELSE x.expression_identifier_member_list # <<>>

\* is-partial of the target of an identifier statement
expression_identifier_partial(x) ==
    IF x.group = "Scoped"
    THEN x.expression_identifier_scoped_list0 # <<>>
    ELSE \/ x.expression_identifier_member_list # <<>>
         \/ \E i \in DOMAIN x.expression_identifier_member_list0 :
               x.expression_identifier_member_list0[i].list0_list # <<>>

\* the identifier statement hook without the legality check
identifier_statement_Unchecked(self, arg) ==
    IF self.point = "Before" /\ arg.group = "Assignment"
       /\ resolve(arg.expression_identifier).ok
    THEN LET x == resolve(arg.expression_identifier)
         IN  IF x.found = "Symbol"
             THEN record(self, assign_list, Statement(arg.token, TRUE), x.full_path,
                         expression_identifier_partial(arg.expression_identifier))
             ELSE Ret(self, assign_list)
    ELSE Ret(self, assign_list)

\* the identifier statement hook of a checker that reports the first
\* violation only and then stops checking
identifier_statement_FirstErrorOnly(self, arg) ==
    IF self.errors # <<>>
    THEN Ret(self, assign_list)
    ELSE IF self.point = "Before" /\ arg.group = "Assignment"
            /\ resolve(arg.expression_identifier).ok
         THEN LET x == resolve(arg.expression_identifier)
                  full_path == x.full_path
              IN  IF x.found = "Symbol"
                  THEN IF can_assign(full_path)
                       THEN record(self, assign_list, Statement(arg.token, TRUE),
                                   full_path,
                                   expression_identifier_partial(arg.expression_identifier))
                       ELSE Ret([self EXCEPT !.errors =
                                   Append(@, invalid_assignment(
                                               to_kind_name(x.symbol.kind),
                                               arg.expression_identifier.identifier))],
                                assign_list)
                  ELSE Ret(self, assign_list)
         ELSE Ret(self, assign_list)

identifier_statement(self, arg) ==
    IF self.point = "Before" /\ arg.group = "Assignment"
       /\ resolve(arg.expression_identifier).ok
    THEN LET x == resolve(arg.expression_identifier)
             full_path == x.full_path
         IN  IF x.found = "Symbol"
             THEN IF can_assign(full_path)
                  THEN record(self, assign_list, Statement(arg.token, TRUE), full_path,
                              expression_identifier_partial(arg.expression_identifier))
                  ELSE Ret([self EXCEPT !.errors =
                              Append(@, invalid_assignment(
                                          to_kind_name(x.symbol.kind),
                                          arg.expression_identifier.identifier))],
                           assign_list)
             ELSE \* External symbol can't be checked
                  Ret(self, assign_list)
    ELSE Ret(self, assign_list)

if_statement(self, arg) ==
    IF self.point = "Before"
    THEN LET branch_index == 0
             branches == 1 + arg.list0_len + (IF arg.opt THEN 1 ELSE 0)
             has_default == arg.opt
             p1 == push(self.assign_position,
                        StatementBranch(arg.if_token, branches, has_default, FALSE, "If"))
             p2 == push(p1, StatementBranchItem(arg.if_token, branch_index, "If"))
         IN  Ret([self EXCEPT !.assign_position = p2, !.branch_index = branch_index + 1],
                 assign_list)
    ELSE Ret([self EXCEPT !.assign_position = pop(pop(@))], assign_list)

\* an if_reset hook that never consults the suppression table
if_reset_statement_NoLookup(self, arg) ==
    IF self.point = "Before"
    THEN LET branch_index == 0
             branches == 1 + arg.list0_len + (IF arg.opt THEN 1 ELSE 0)
             has_default == arg.opt
             p1 == push(self.assign_position,
                        StatementBranch(arg.if_reset_token, branches, has_default,
                                        FALSE, "IfReset"))
             p2 == push(p1, StatementBranchItem(arg.if_reset_token, branch_index, "IfReset"))
         IN  Ret([self EXCEPT !.assign_position = p2, !.branch_index = branch_index + 1],
                 assign_list)
    ELSE Ret([self EXCEPT !.assign_position = pop(pop(@))], assign_list)

if_reset_statement(self, arg) ==
    IF self.point = "Before"
    THEN LET branch_index == 0
             branches == 1 + arg.list0_len + (IF arg.opt THEN 1 ELSE 0)
             has_default == arg.opt
             allow_missing_reset_statement == "missing_reset_statement" \in allow_table
             p1 == push(self.assign_position,
                        StatementBranch(arg.if_reset_token, branches, has_default,
                                        allow_missing_reset_statement, "IfReset"))
             p2 == push(p1, StatementBranchItem(arg.if_reset_token, branch_index, "IfReset"))
         IN  Ret([self EXCEPT !.assign_position = p2, !.branch_index = branch_index + 1],
                 assign_list)
    ELSE Ret([self EXCEPT !.assign_position = pop(pop(@))], assign_list)

for_statement(self, arg) ==
    IF self.point = "Before" /\ resolve(arg.identifier).ok
    THEN record(self, assign_list, Statement(arg.for_token, FALSE),
                resolve(arg.identifier).full_path, FALSE)
    ELSE Ret(self, assign_list)

case_statement(self, arg) ==
    IF self.point = "Before"
    THEN LET branches == Len(arg.case_statement_list)
             has_default == \E i \in DOMAIN arg.case_statement_list :
                                arg.case_statement_list[i] = "Defaul"
         IN  Ret([self EXCEPT
                    !.branch_index = 0,
                    !.assign_position =
                        push(@, StatementBranch(arg.case_token, branches, has_default,
                                                FALSE, "Case"))], assign_list)
    ELSE Ret([self EXCEPT !.assign_position = pop(@)], assign_list)

case_item(self, arg) ==
    IF self.point = "Before"
    THEN Ret([self EXCEPT
                !.assign_position =
                    push(@, StatementBranchItem(arg.colon_token, self.branch_index, "Case")),
                !.branch_index = @ + 1], assign_list)
    ELSE Ret([self EXCEPT !.assign_position = pop(@)], assign_list)

\* a let declaration hook that records under the live stack as it is
let_declaration_NoFrame(self, arg) ==
    IF self.point = "Before" /\ resolve(arg.identifier).ok
    THEN Ret(self, add_assign(assign_list, resolve(arg.identifier).full_path,
                              self.assign_position, FALSE))
    ELSE Ret(self, assign_list)

let_declaration(self, arg) ==
    IF self.point = "Before" /\ resolve(arg.identifier).ok
    THEN record(self, assign_list, Declaration(arg.let_token, "Let"),
                resolve(arg.identifier).full_path, FALSE)
    ELSE Ret(self, assign_list)

always_ff_declaration(self, arg) ==
    IF self.point = "Before"
    THEN Ret([self EXCEPT !.assign_position =
                push(@, Declaration(arg.always_ff_token, "AlwaysFf"))], assign_list)
    ELSE Ret([self EXCEPT !.assign_position = pop(@)], assign_list)

always_comb_declaration(self, arg) ==
    IF self.point = "Before"
    THEN Ret([self EXCEPT !.assign_position =
                push(@, Declaration(arg.always_comb_token, "AlwaysComb"))], assign_list)
    ELSE Ret([self EXCEPT !.assign_position = pop(@)], assign_list)

\* is-partial of the target of a continuous assignment ("selected partially")
hierarchical_identifier_partial(x) ==
    \/ x.hierarchical_identifier_list # <<>>
    \/ \E i \in DOMAIN x.hierarchical_identifier_list0 :
          x.hierarchical_identifier_list0[i].list0_list # <<>>

assign_declaration(self, arg) ==
    IF self.point = "Before" /\ resolve(arg.hierarchical_identifier).ok
    THEN LET x == resolve(arg.hierarchical_identifier)
             full_path == x.full_path
         IN  IF x.found = "Symbol"
             THEN IF can_assign(full_path)
                  THEN record(self, assign_list, Declaration(arg.assign_token, "Assign"),
                              full_path,
                              hierarchical_identifier_partial(arg.hierarchical_identifier))
                  ELSE Ret([self EXCEPT !.errors =
                              Append(@, invalid_assignment(
                                          to_kind_name(x.symbol.kind),
                                          arg.hierarchical_identifier.identifier))],
                           assign_list)
             ELSE \* External symbol can't be checked
                  Ret(self, assign_list)
    ELSE Ret(self, assign_list)

function_declaration(self, arg) ==
    IF self.point = "Before"
    THEN Ret([self EXCEPT !.assign_position =
                push(@, Declaration(arg.function_token, "Function"))], assign_list)
    ELSE Ret([self EXCEPT !.assign_position = pop(@)], assign_list)

module_if_declaration(self, arg) ==
    IF self.point = "Before"
    THEN LET branch_index == 0
             branches == 1 + arg.list_len + (IF arg.opt THEN 1 ELSE 0)
             p1 == push(self.assign_position, DeclarationBranch(arg.if_token, branches))
             p2 == push(p1, DeclarationBranchItem(arg.if_token, branch_index))
         IN  Ret([self EXCEPT !.assign_position = p2, !.branch_index = branch_index + 1],
                 assign_list)
    ELSE Ret([self EXCEPT !.assign_position = pop(@)], assign_list)

module_for_declaration(self, arg) ==
    IF self.point = "Before" /\ resolve(arg.identifier).ok
    THEN record(self, assign_list, Statement(arg.for_token, FALSE),
                resolve(arg.identifier).full_path, FALSE)
    ELSE Ret(self, assign_list)

\* ------------------------------------------------------ inst_declaration
\* an instance hook that learns no port direction
inst_dirs_Empty(type) == << >>

\* dirs: the direction of each port name of the instantiated module (a later
\* port of the same name overwrites an earlier one)
inst_dirs(type) ==
    IF type.ok /\ type.found = "Symbol" /\ type.symbol.kind.tag = "Module"
    THEN LET ports == type.symbol.kind.ports
             names == {ports[i].name : i \in DOMAIN ports}
             at(n) == CHOOSE i \in DOMAIN ports :
                         /\ ports[i].name = n
                         /\ \A j \in DOMAIN ports : ports[j].name = n => j <= i
         IN  [n \in names |-> ports[at(n)].direction]
    ELSE << >>

\* an instance hook that never takes the direction as unknown
inst_dir_unknown_Never(type) == FALSE

inst_dir_unknown(type) ==
    type.ok /\ type.found = "Symbol" /\ type.symbol.kind.tag = "SystemVerilog"

\* the loop over the connections, taken in the order `order`
RECURSIVE inst_connects(_, _, _, _, _, _, _)
inst_connects(self, tbl, arg, connects, dirs, dir_unknown, order) ==
    IF order = <<>> THEN Ret(self, tbl)
    ELSE LET name == Head(order)
             target == connects[name]
             dir_output == IF name \in DOMAIN dirs
                           THEN dirs[name] \in {"Ref", "Inout", "Output"}
                           ELSE FALSE
             r == IF target.path # <<>> /\ (dir_output \/ dir_unknown)
                     /\ resolve(target).ok
                  THEN record(self, tbl, Declaration(arg.inst_token, "Inst"),
                              resolve(target).full_path, FALSE)
                  ELSE Ret(self, tbl)
         IN  inst_connects(r.self, r.assign_list, arg, connects, dirs, dir_unknown,
                           Tail(order))

\* `order` is the iteration order of the instance's connection map
inst_declaration(self, arg, order) ==
    IF self.point = "Before" /\ resolve(arg.identifier).ok
       /\ resolve(arg.identifier).found = "Symbol"
       /\ resolve(arg.identifier).symbol.kind.tag = "Instance"
    THEN LET x == resolve(arg.identifier).symbol.kind
             type == resolve(x.type_name)
         IN  inst_connects(self, assign_list, arg, x.connects, inst_dirs(type),
                           inst_dir_unknown(type), order)
    ELSE Ret(self, assign_list)

\* ------------------------------------------------------ the parsed nodes
\* The nodes the walk can meet: each is the part of the syntax tree node its
\* hook reads, references carrying their resolution.
vA == IdOf("Variable", "None")
pIn == IdOf("Port", "Input")
pOut == IdOf("Port", "Output")
sM == IdOf("StructMember", "None")

\* Identifier
Ident(text, res) == [text |-> text, resolve |-> res]

AllBindingIdentifiers ==
    { Ident("x", ResolveFound(<<vA>>)), Ident("p", ResolveFound(<<pIn>>)),
      Ident("u", ResolveErr), Ident("e", ResolveExternal(<<>>)) }

BindingIdentifiers ==
    IF unit.rich THEN AllBindingIdentifiers ELSE { Ident("x", ResolveFound(<<vA>>)) }

\* ExpressionIdentifier: Identifier ( :: Identifier { :: Identifier } { Select }
\*                                  | { Select } { . Identifier { Select } } )
Member(text, selects) == [identifier |-> text, list0_list |-> selects]

ExprMember(text, selects, members, res) ==
    [identifier |-> text, group |-> "Member",
     expression_identifier_scoped_list0 |-> <<>>,
     expression_identifier_member_list |-> selects,
     expression_identifier_member_list0 |-> members,
     resolve |-> res]

ExprScoped(text, selects, res) ==
    [identifier |-> text, group |-> "Scoped",
     expression_identifier_scoped_list0 |-> selects,
     expression_identifier_member_list |-> <<>>,
     expression_identifier_member_list0 |-> <<>>,
     resolve |-> res]

ExpressionIdentifiers ==
    { ExprMember("a", <<>>, <<>>, ResolveFound(<<vA>>)),                     \* a
      ExprMember("a", <<>>, <<Member("b", <<>>)>>, ResolveFound(<<vA, sM>>)), \* a.b
      ExprMember("a", <<"[0]">>, <<>>, ResolveFound(<<vA>>)),                 \* a[0]
      ExprMember("a", <<>>, <<Member("b", <<"[0]">>)>>, ResolveFound(<<vA, sM>>)), \* a.b[0]
      ExprMember("p", <<>>, <<>>, ResolveFound(<<pIn>>)),                     \* p
      ExprMember("p", <<>>, <<Member("b", <<>>)>>, ResolveFound(<<pIn, sM>>)), \* p.b
      ExprMember("q", <<>>, <<Member("b", <<>>)>>, ResolveFound(<<pOut, sM>>)), \* q.b
      ExprMember("u", <<>>, <<>>, ResolveErr),                               \* undeclared
      ExprScoped("pkg", <<>>, ResolveExternal(<<>>)),                        \* pkg::x
      ExprScoped("pkg", <<"[0]">>, ResolveFound(<<vA>>)) }                   \* pkg::v[0]

AllIdentifierStatements ==
    { [group |-> "Assignment", token |-> "=", expression_identifier |-> x] :
          x \in ExpressionIdentifiers }
    \cup { [group |-> "Assignment", token |-> "+=",
            expression_identifier |-> ExprMember("a", <<>>, <<>>, ResolveFound(<<vA>>))],
           [group |-> "FunctionCall", token |-> "(",
            expression_identifier |-> ExprMember("a", <<>>, <<>>, ResolveFound(<<vA>>))] }

IdentifierStatements ==
    IF unit.rich THEN AllIdentifierStatements
    ELSE { [group |-> "Assignment", token |-> "=",
            expression_identifier |-> ExprMember("a", <<>>, <<>>, ResolveFound(<<vA>>))] }

\* HierarchicalIdentifier: Identifier { Select } { . Identifier { Select } }
Hier(text, selects, members, res) ==
    [identifier |-> text,
     hierarchical_identifier_list |-> selects,
     hierarchical_identifier_list0 |-> members,
     resolve |-> res]

AllHierarchicalIdentifiers ==
    { Hier("a", <<>>, <<>>, ResolveFound(<<vA>>)),
      Hier("a", <<>>, <<Member("b", <<>>)>>, ResolveFound(<<vA, sM>>)),
      Hier("a", <<"[0]">>, <<>>, ResolveFound(<<vA>>)),
      Hier("a", <<>>, <<Member("b", <<"[0]">>)>>, ResolveFound(<<vA, sM>>)),
      Hier("p", <<>>, <<>>, ResolveFound(<<pIn>>)),
      Hier("u", <<>>, <<>>, ResolveErr),
      Hier("e", <<>>, <<>>, ResolveExternal(<<>>)) }

HierarchicalIdentifiers ==
    IF unit.rich THEN AllHierarchicalIdentifiers
    ELSE { Hier("a", <<>>, <<>>, ResolveFound(<<vA>>)) }

\* if / if_reset: the number of else-if arms and the final else
\* (if; if else; if else-if else)
IfStatements ==
    { [if_token |-> "if", list0_len |-> 0, opt |-> FALSE],
      [if_token |-> "if", list0_len |-> 0, opt |-> TRUE],
      [if_token |-> "if", list0_len |-> 1, opt |-> TRUE] }

IfResetStatements ==
    { [if_reset_token |-> "if_reset", list0_len |-> 0, opt |-> FALSE],
      [if_reset_token |-> "if_reset", list0_len |-> 0, opt |-> TRUE],
      [if_reset_token |-> "if_reset", list0_len |-> 1, opt |-> TRUE] }

\* generate-if (if; if else-if else)
ModuleIfDeclarations ==
    { [if_token |-> "if", list_len |-> 0, opt |-> FALSE],
      [if_token |-> "if", list_len |-> 1, opt |-> TRUE] }

\* a case statement: the groups of its arms
CaseStatements ==
    { [case_token |-> "case", case_statement_list |-> l] :
          l \in { <<"Expression">>, <<"Expression", "Defaul">>,
                  <<"Defaul", "Expression">> } }

\* the instance's symbol: its type and its connections (port name -> target)
ModuleSymbol(d) ==
    [kind |-> [tag |-> "Module",
               ports |-> << [name |-> "i", direction |-> "Input"],
                            [name |-> "o", direction |-> d] >>]]

TypeNames ==
    { [resolve |-> [ok |-> TRUE, found |-> "Symbol", full_path |-> <<>>,
                    symbol |-> ModuleSymbol(d)]] : d \in {"Output", "Inout", "Ref"} }
    \cup { [resolve |-> [ok |-> TRUE, found |-> "Symbol", full_path |-> <<>>,
                         symbol |-> [kind |-> [tag |-> "SystemVerilog"]]]],
           [resolve |-> [ok |-> TRUE, found |-> "Symbol", full_path |-> <<>>,
                         symbol |-> [kind |-> [tag |-> "Interface"]]]],
           [resolve |-> ResolveErr],
           [resolve |-> ResolveExternal(<<>>)] }

ConnectTargets ==
    { [path |-> <<>>, resolve |-> ResolveErr],
      [path |-> <<"a">>, resolve |-> ResolveFound(<<vA>>)],
      [path |-> <<"p">>, resolve |-> ResolveFound(<<pIn>>)],
      [path |-> <<"u">>, resolve |-> ResolveErr],
      [path |-> <<"e">>, resolve |-> ResolveExternal(<<>>)] }

ConnectNames == {"i", "o", "x"}

\* no connection, one connection, and two connections of a port pair
Connects ==
    UNION { [S -> ConnectTargets] : S \in {{}} \cup {{n} : n \in ConnectNames} }
    \cup [{"i", "o"} -> {t \in ConnectTargets : t.path \in {<<"a">>, <<"p">>}}]

AllInstDeclarations ==
    { [inst_token |-> "inst",
       identifier |-> Ident("u0", [ok |-> TRUE, found |-> "Symbol", full_path |-> <<>>,
                                   symbol |-> [kind |-> [tag |-> "Instance", type_name |-> t,
                                                         connects |-> c]]])] :
          t \in TypeNames, c \in Connects }
    \cup { [inst_token |-> "inst", identifier |-> i] : i \in AllBindingIdentifiers }

InstDeclarations ==
    IF unit.rich THEN AllInstDeclarations
    ELSE { d \in AllInstDeclarations :
             LET sym == resolve(d.identifier)
             IN  /\ sym.ok /\ sym.found = "Symbol" /\ sym.symbol.kind.tag = "Instance"
                 /\ resolve(sym.symbol.kind.type_name) = [ok |-> TRUE, found |-> "Symbol",
                        full_path |-> <<>>, symbol |-> ModuleSymbol("Output")]
                 /\ DOMAIN sym.symbol.kind.connects = {"o"}
                 /\ sym.symbol.kind.connects["o"].path = <<"a">> }

\* the iteration orders of a connection map
Orders(S) ==
    { o \in [1 .. Cardinality(S) -> S] : \A i, j \in 1 .. Cardinality(S) : o[i] = o[j] => i = j }

\* --------------------------------------------------------- the tree walk
\* CheckAssignment::new
new ==
    [errors |-> <<>>, point |-> "Before", assign_position |-> <<>>,
     in_if_expression |-> 0, branch_index |-> 0, panicked |-> FALSE]

\* The source units walked. A unit is made of the node kinds of its
\* vocabulary; a rich unit draws each reference from every reference of the
\* model, a plain unit uses one resolvable, assignable reference throughout.
\* `allow` is the suppression table of the unit's project.
Vocabulary(kinds, rich, allow) == [kinds |-> kinds, rich |-> rich, allow |-> allow]

\* no call of can_assign on its own
NoProbe == [full_path |-> <<>>, called |-> FALSE, ret |-> FALSE]

Units ==
    { Vocabulary({"always_comb_declaration", "if_statement", "identifier_statement",
                  "if_expression"}, FALSE, {"missing_reset_statement"}),
      Vocabulary({"always_ff_declaration", "if_reset_statement", "let_statement"},
                 FALSE, {"missing_reset_statement"}),
      Vocabulary({"always_ff_declaration", "if_reset_statement", "identifier_statement",
                  "if_expression"}, FALSE, {}),
      Vocabulary({"function_declaration", "case_statement", "identifier_statement",
                  "for_statement"}, FALSE, {"missing_reset_statement"}),
      Vocabulary({"module_if_declaration", "if_expression"}, FALSE, {}),
      Vocabulary({"assign_declaration", "if_expression", "module_for_declaration"},
                 FALSE, {}),
      Vocabulary({"module_if_declaration", "always_comb_declaration",
                  "identifier_statement"}, FALSE, {}),
      Vocabulary({"inst_declaration", "module_for_declaration"}, FALSE, {}),
      Vocabulary({"always_ff_declaration", "let_statement", "identifier_statement"},
                 TRUE, {}),
      Vocabulary({"always_ff_declaration", "for_statement", "identifier_statement"},
                 TRUE, {}),
      Vocabulary({"let_declaration", "assign_declaration"}, TRUE, {}),
      Vocabulary({"module_for_declaration", "assign_declaration"}, TRUE, {}),
      Vocabulary({"inst_declaration"}, TRUE, {}) }

\* a walker instance that is not running, with the walk it belongs to
Parked(self, u, c, v) == [walker |-> self, unit |-> u, ctx |-> c, visited |-> v]

\* one walker only: nothing is parked (`id` is the running instance and
\* `owners` the instance that recorded each fact of the history)
NoDuo ==
    [on |-> FALSE, id |-> 1, owners |-> <<>>,
     parked |-> Parked(new, Vocabulary({}, FALSE, {}), <<>>, 0)]

Init ==
    /\ walker = new
    /\ assign_list = <<>>
    /\ unit \in Units
    /\ allow_table = unit.allow
    /\ ctx = <<>>
    /\ visited = 0
    /\ probe = NoProbe
    /\ duo = NoDuo

Top == ctx[Len(ctx)]

\* an open node: `base` is the depth of the position stack before its Before
\* hook, `arm` the arm of the node the walk is in (for a case statement, the
\* number of its items entered so far)
Frame(node, arg, arm) ==
    [node |-> node, arg |-> arg, base |-> Len(walker.assign_position), arm |-> arm]

\* the number of arms of an open if / if_reset / generate-if / case node or
\* conditional expression
ArmsOf(f) ==
    CASE f.node \in {"if_statement", "if_reset_statement"} ->
             1 + f.arg.list0_len + (IF f.arg.opt THEN 1 ELSE 0)
      [] f.node = "module_if_declaration" ->
             1 + f.arg.list_len + (IF f.arg.opt THEN 1 ELSE 0)
      [] f.node = "case_statement" -> Len(f.arg.case_statement_list)
      [] f.node = "if_expression" -> 1 + f.arg.list_len + 1
      [] OTHER -> 0

\* where a declaration, a statement, a conditional expression may stand
DeclHost ==
    IF ctx = <<>> THEN TRUE
    ELSE Top.node \in {"module_if_declaration", "module_for_declaration"}

StmtHost ==
    /\ ctx # <<>>
    /\ Top.node \in {"always_ff_declaration", "always_comb_declaration",
                     "function_declaration", "if_statement", "if_reset_statement",
                     "case_item", "for_statement"}

ExprHost ==
    /\ ctx # <<>>
    /\ Top.node \in {"identifier_statement", "let_statement", "if_statement",
                     "if_reset_statement", "case_statement", "case_item",
                     "let_declaration", "assign_declaration",
                     "module_if_declaration", "if_expression"}

\* the hook's result becomes the state (a panic ends the walk)
Apply(r) ==
    /\ ~walker.panicked
    /\ Len(r.assign_list) <= MaxFacts
    /\ Len(r.self.errors) <= MaxErrors
    /\ walker' = r.self
    /\ assign_list' = r.assign_list
    /\ duo' = [duo EXCEPT !.owners =
                  IF duo.on
                  THEN @ \o [i \in 1 .. Len(r.assign_list) - Len(assign_list) |-> duo.id]
                  ELSE @]
    /\ UNCHANGED <<allow_table, unit, probe>>

\* most nodes walked in all: two interleaved walks share one node less
NodeBudget == IF duo.on THEN MaxNodes - 1 ELSE MaxNodes

\* the walk enters a statement, a declaration or a conditional expression
Enter(node, arg, r) ==
    /\ node \in unit.kinds
    /\ visited + duo.parked.visited < NodeBudget
    /\ Apply(r)
    /\ ctx' = Append(ctx, Frame(node, arg, 0))
    /\ visited' = visited + 1

Leave(r) ==
    /\ Apply(r)
    /\ ctx' = SubSeq(ctx, 1, Len(ctx) - 1)
    /\ UNCHANGED visited

Before == set_point(walker, "Before")
After == set_point(walker, "After")

\* the open node is `node`
At(node) == ctx # <<>> /\ Top.node = node

\* every arm of the open node has been walked
ArmsDone == Top.arm + 1 = ArmsOf(Top)

else_Before ==
    /\ ctx # <<>>
    /\ Top.node \in {"if_statement", "if_reset_statement", "module_if_declaration",
                     "if_expression"}
    /\ Top.arm + 1 < ArmsOf(Top)
    /\ Apply(r_else(Before, [else_token |-> "else"]))
    /\ ctx' = Append([ctx EXCEPT ![Len(ctx)].arm = @ + 1],
                     Frame("else", [else_token |-> "else"], 0))
    /\ UNCHANGED visited

else_After ==
    /\ At("else")
    /\ Leave(r_else(After, Top.arg))

\* IfExpression: if c { e } { else if c { e } } else { e }
if_expression_Before ==
    /\ ExprHost
    /\ \E arg \in {[list_len |-> 0]} :
          Enter("if_expression", arg, if_expression(Before, arg))

if_expression_After ==
    /\ At("if_expression")
    /\ ArmsDone
    /\ Leave(if_expression(After, Top.arg))

let_statement_Before ==
    /\ StmtHost
    /\ \E i \in BindingIdentifiers :
          LET arg == [identifier |-> i, equ_token |-> "="]
          IN  Enter("let_statement", arg, let_statement(Before, arg))

let_statement_After ==
    /\ At("let_statement")
    /\ Leave(let_statement(After, Top.arg))

identifier_statement_Before ==
    /\ StmtHost
    /\ \E arg \in IdentifierStatements :
          Enter("identifier_statement", arg, identifier_statement(Before, arg))

identifier_statement_After ==
    /\ At("identifier_statement")
    /\ Leave(identifier_statement(After, Top.arg))

if_statement_Before ==
    /\ StmtHost
    /\ \E arg \in IfStatements : Enter("if_statement", arg, if_statement(Before, arg))

if_statement_After ==
    /\ At("if_statement")
    /\ ArmsDone
    /\ Leave(if_statement(After, Top.arg))

if_reset_statement_Before ==
    /\ StmtHost
    /\ \E arg \in IfResetStatements :
          Enter("if_reset_statement", arg, if_reset_statement(Before, arg))

if_reset_statement_After ==
    /\ At("if_reset_statement")
    /\ ArmsDone
    /\ Leave(if_reset_statement(After, Top.arg))

for_statement_Before ==
    /\ StmtHost
    /\ \E i \in BindingIdentifiers :
          LET arg == [identifier |-> i, for_token |-> "for"]
          IN  Enter("for_statement", arg, for_statement(Before, arg))

for_statement_After ==
    /\ At("for_statement")
    /\ Leave(for_statement(After, Top.arg))

case_statement_Before ==
    /\ StmtHost
    /\ \E arg \in CaseStatements : Enter("case_statement", arg, case_statement(Before, arg))

case_statement_After ==
    /\ At("case_statement")
    /\ Top.arm = ArmsOf(Top)
    /\ Leave(case_statement(After, Top.arg))

case_item_Before ==
    /\ At("case_statement")
    /\ Top.arm < ArmsOf(Top)
    /\ LET arg == [colon_token |-> ":",
                   case_item_group |-> Top.arg.case_statement_list[Top.arm + 1]]
       IN  /\ Apply(case_item(Before, arg))
           /\ ctx' = Append([ctx EXCEPT ![Len(ctx)].arm = @ + 1],
                            Frame("case_item", arg, Top.arm))
           /\ UNCHANGED visited

case_item_After ==
    /\ At("case_item")
    /\ Leave(case_item(After, Top.arg))

let_declaration_Before ==
    /\ DeclHost
    /\ \E i \in BindingIdentifiers :
          LET arg == [identifier |-> i, let_token |-> "let"]
          IN  Enter("let_declaration", arg, let_declaration(Before, arg))

let_declaration_After ==
    /\ At("let_declaration")
    /\ Leave(let_declaration(After, Top.arg))

always_ff_declaration_Before ==
    /\ DeclHost
    /\ LET arg == [always_ff_token |-> "always_ff"]
       IN  Enter("always_ff_declaration", arg, always_ff_declaration(Before, arg))

always_ff_declaration_After ==
    /\ At("always_ff_declaration")
    /\ Leave(always_ff_declaration(After, Top.arg))

always_comb_declaration_Before ==
    /\ DeclHost
    /\ LET arg == [always_comb_token |-> "always_comb"]
       IN  Enter("always_comb_declaration", arg, always_comb_declaration(Before, arg))

always_comb_declaration_After ==
    /\ At("always_comb_declaration")
    /\ Leave(always_comb_declaration(After, Top.arg))

assign_declaration_Before ==
    /\ DeclHost
    /\ \E h \in HierarchicalIdentifiers :
          LET arg == [hierarchical_identifier |-> h, assign_token |-> "assign"]
          IN  Enter("assign_declaration", arg, assign_declaration(Before, arg))

assign_declaration_After ==
    /\ At("assign_declaration")
    /\ Leave(assign_declaration(After, Top.arg))

inst_declaration_Before ==
    /\ DeclHost
    /\ \E arg \in InstDeclarations :
          LET sym == resolve(arg.identifier)
              names == IF sym.ok /\ sym.found = "Symbol" /\ sym.symbol.kind.tag = "Instance"
                       THEN DOMAIN sym.symbol.kind.connects ELSE {}
          IN  \E order \in Orders(names) :
                 Enter("inst_declaration", arg, inst_declaration(Before, arg, order))

inst_declaration_After ==
    /\ At("inst_declaration")
    /\ Leave(inst_declaration(After, Top.arg, <<>>))

function_declaration_Before ==
    /\ DeclHost
    /\ LET arg == [function_token |-> "function"]
       IN  Enter("function_declaration", arg, function_declaration(Before, arg))

function_declaration_After ==
    /\ At("function_declaration")
    /\ Leave(function_declaration(After, Top.arg))

module_if_declaration_Before ==
    /\ DeclHost
    /\ \E arg \in ModuleIfDeclarations :
          Enter("module_if_declaration", arg, module_if_declaration(Before, arg))

module_if_declaration_After ==
    /\ At("module_if_declaration")
    /\ ArmsDone
    /\ Leave(module_if_declaration(After, Top.arg))

module_for_declaration_Before ==
    /\ DeclHost
    /\ \E i \in BindingIdentifiers :
          LET arg == [identifier |-> i, for_token |-> "for"]
          IN  Enter("module_for_declaration", arg, module_for_declaration(Before, arg))

module_for_declaration_After ==
    /\ At("module_for_declaration")
    /\ Leave(module_for_declaration(After, Top.arg))

Next ==
    \/ else_Before \/ else_After
    \/ if_expression_Before \/ if_expression_After
    \/ let_statement_Before \/ let_statement_After
    \/ identifier_statement_Before \/ identifier_statement_After
    \/ if_statement_Before \/ if_statement_After
    \/ if_reset_statement_Before \/ if_reset_statement_After
    \/ for_statement_Before \/ for_statement_After
    \/ case_statement_Before \/ case_statement_After
    \/ case_item_Before \/ case_item_After
    \/ let_declaration_Before \/ let_declaration_After
    \/ always_ff_declaration_Before \/ always_ff_declaration_After
    \/ always_comb_declaration_Before \/ always_comb_declaration_After
    \/ assign_declaration_Before \/ assign_declaration_After
    \/ inst_declaration_Before \/ inst_declaration_After
    \/ function_declaration_Before \/ function_declaration_After
    \/ module_if_declaration_Before \/ module_if_declaration_After
    \/ module_for_declaration_Before \/ module_for_declaration_After

Spec == Init /\ [][Next]_vars

\* ------------------------------------------------- two walker instances
\* Two source units of one project are analysed by two CheckAssignment
\* instances whose hook calls interleave. The hooks take &mut self: a call
\* works on the fields of the instance it is made on. The symbol table's
\* assignment history and the suppression table are shared.
SecondUnit(allow) ==
    Vocabulary({"always_comb_declaration", "if_statement", "identifier_statement"},
               FALSE, allow)

InitTwo ==
    /\ walker = new
    /\ assign_list = <<>>
    /\ unit \in Units
    /\ allow_table = unit.allow
    /\ ctx = <<>>
    /\ visited = 0
    /\ probe = NoProbe
    /\ duo = [on |-> TRUE, id |-> 1, owners |-> <<>>,
              parked |-> Parked(new, SecondUnit(unit.allow), <<>>, 0)]

\* the fields of the instance the next hook is called on, all of them in
\* the instance stored as `parked` since its last call
self_of_StaticIndex(parked, running) ==
    [parked EXCEPT !.branch_index = running.branch_index]

self_of(parked, running) == parked

\* the next hook call is made on the other instance
Switch ==
    /\ duo.on
    /\ ~walker.panicked
    /\ walker' = self_of(duo.parked.walker, walker)
    /\ unit' = duo.parked.unit
    /\ ctx' = duo.parked.ctx
    /\ visited' = duo.parked.visited
    /\ duo' = [duo EXCEPT !.id = 3 - @,
                          !.parked = Parked(walker, unit, ctx, visited)]
    /\ UNCHANGED <<assign_list, allow_table, probe>>

NextTwo == Next \/ Switch

SpecTwo == InitTwo /\ [][NextTwo]_vars

\* ------------------------------------------- can_assign called on its own
Paths == UNION { [1 .. n -> SymbolIds \cup {DanglingId}] : n \in 0 .. MaxPath }

InitLegal ==
    /\ walker = new
    /\ assign_list = <<>>
    /\ unit = Vocabulary({}, FALSE, {})
    /\ allow_table = unit.allow
    /\ ctx = <<>>
    /\ visited = 0
    /\ probe \in { [full_path |-> p, called |-> FALSE, ret |-> FALSE] : p \in Paths }
    /\ duo = NoDuo

can_assign_Call ==
    /\ ~probe.called
    /\ probe' = [probe EXCEPT !.called = TRUE, !.ret = can_assign(probe.full_path)]
    /\ UNCHANGED <<walker, assign_list, allow_table, unit, ctx, visited, duo>>

NextLegal == can_assign_Call

SpecLegal == InitLegal /\ [][NextLegal]_vars

\* ------------------------------------------------ Metadata::search_from
\*   crates/metadata/src/metadata.rs
\* A path is the sequence of its components below the root. The file
\* system says, for each path asked about, whether nothing, a regular file or
\* a directory is there.
DirNames == {"a", "b"}

EntryKinds == {"none", "file", "dir"}

Ok(value) == [ok |-> TRUE, value |-> value, error |-> "None"]

Err(error) == [ok |-> FALSE, value |-> <<>>, error |-> error]

\* Path::ancestors: the path itself, then each parent up to the root
ancestors(from) == [i \in 1 .. Len(from) + 1 |-> SubSeq(from, 1, Len(from) + 1 - i)]

\* Path::join
join(path, name) == Append(path, name)

\* Path::is_file: true for a regular file only
is_file(fs, path) == fs[path] = "file"

\* the loop of search_from over ancestors i, i + 1, ..
RECURSIVE search_from_loop(_, _, _)
search_from_loop(fs, chain, i) ==
    IF i > Len(chain)
    THEN Err("FileNotFound")
    ELSE LET path == join(chain[i], "Veryl.toml")
         IN  IF is_file(fs, path) THEN Ok(path) ELSE search_from_loop(fs, chain, i + 1)

\* a search that prefers the project file nearest to the root
search_from_Farthest(fs, from) ==
    LET chain == ancestors(from)
    IN  search_from_loop(fs, [i \in DOMAIN chain |-> chain[Len(chain) + 1 - i]], 1)

search_from(fs, from) == search_from_loop(fs, ancestors(from), 1)

\* the directories to search from and the file systems around them
Dirs == UNION { [1 .. n -> DirNames] : n \in 0 .. MaxDirs }

Candidates(from) == { join(ancestors(from)[i], "Veryl.toml") : i \in 1 .. Len(from) + 1 }

InitSearch ==
    /\ walker = new
    /\ assign_list = <<>>
    /\ unit = Vocabulary({}, FALSE, {})
    /\ allow_table = unit.allow
    /\ ctx = <<>>
    /\ visited = 0
    /\ \E from \in Dirs : \E fs \in [Candidates(from) -> EntryKinds] :
          probe = [from |-> from, fs |-> fs, called |-> FALSE, ret |-> Err("None")]
    /\ duo = NoDuo

search_from_Call ==
    /\ ~probe.called
    /\ probe' = [probe EXCEPT !.called = TRUE, !.ret = search_from(probe.fs, probe.from)]
    /\ UNCHANGED <<walker, assign_list, allow_table, unit, ctx, visited, duo>>

NextSearch == search_from_Call

SpecSearch == InitSearch /\ [][NextSearch]_vars

\* -------------------------------------------- Metadata::check and ::load
\* A string is the sequence of its characters.
Letters == {"a", "Z"}

Digits == {"0"}

Chars == Letters \cup Digits \cup {"_", "-"}

\* a regular expression of the shape  [^] first rest* [$]
Regex(anchored_start, first, rest, anchored_end) ==
    [anchored_start |-> anchored_start, first |-> first, rest |-> rest,
     anchored_end |-> anchored_end]

\* Regex::is_match: some substring matches; ^ ties its start to the start of
\* the text and $ its end to the end of the text
is_match(re, text) ==
    \E s \in 1 .. Len(text) : \E e \in s .. Len(text) :
        /\ re.anchored_start => s = 1
        /\ re.anchored_end => e = Len(text)
        /\ text[s] \in re.first
        /\ \A i \in s + 1 .. e : text[i] \in re.rest

\* the pattern without its anchors
valid_project_name_Unanchored ==
    Regex(FALSE, Letters \cup {"_"}, Digits \cup Letters \cup {"_"}, FALSE)

\* r"^[a-zA-Z_][0-9a-zA-Z_]*$"
valid_project_name ==
    Regex(TRUE, Letters \cup {"_"}, Digits \cup Letters \cup {"_"}, TRUE)

\* spdx::Expression::parse, on the license texts of the inputs
Licenses == {"MIT", "MIT OR", "None"}

Expression_parse(license) == IF license = "MIT" THEN Ok(license) ELSE Err("ParseError")

\* MetadataError: InvalidProjectName with the name it carries, or the error
\* the ? operator converts, tagged with the call that failed
MetadataError(tag, name) == [tag |-> tag, name |-> name]

\* Metadata::check
check(self) ==
    IF ~is_match(valid_project_name, self.project.name)
    THEN Err(MetadataError("InvalidProjectName", self.project.name))
    ELSE IF self.project.license # "None" /\ ~Expression_parse(self.project.license).ok
         THEN Err(MetadataError("Expression::parse", <<>>))
         ELSE Ok(<<>>)

\* the project file at the path handed to load: missing (canonicalize
\* fails), unreadable (read_to_string fails), not a valid document (from_str
\* fails), or a document that parses to `project`
FileStates == {"missing", "unreadable", "malformed", "parsed"}

\* Metadata::load
load(file) ==
    IF file.state = "missing" THEN Err(MetadataError("canonicalize", <<>>))
    ELSE IF file.state = "unreadable" THEN Err(MetadataError("read_to_string", <<>>))
    ELSE IF file.state = "malformed" THEN Err(MetadataError("from_str", <<>>))
    ELSE LET metadata == [project |-> file.project, metadata_path |-> file.path]
         IN  IF check(metadata).ok THEN Ok(metadata) ELSE check(metadata)

Names == UNION { [1 .. n -> Chars] : n \in 0 .. MaxName }

Projects == { [name |-> n, license |-> l] : n \in Names, l \in Licenses }

NoProject == [name |-> <<>>, license |-> "None"]

Files ==
    { [state |-> "parsed", path |-> <<"Veryl.toml">>, project |-> p] : p \in Projects }
    \cup { [state |-> s, path |-> <<"Veryl.toml">>, project |-> NoProject] :
             s \in FileStates \ {"parsed"} }

InitCheck ==
    /\ walker = new
    /\ assign_list = <<>>
    /\ unit = Vocabulary({}, FALSE, {})
    /\ allow_table = unit.allow
    /\ ctx = <<>>
    /\ visited = 0
    /\ \E f \in Files :
          probe = [file |-> f, called |-> "no", ret |-> Err(MetadataError("None", <<>>))]
    /\ duo = NoDuo

\* check called on the metadata a parsed file holds, with no path set
check_Call ==
    /\ probe.called = "no"
    /\ probe.file.state = "parsed"
    /\ probe' = [probe EXCEPT
                   !.called = "check",
                   !.ret = check([project |-> probe.file.project,
                                  metadata_path |-> <<>>])]
    /\ UNCHANGED <<walker, assign_list, allow_table, unit, ctx, visited, duo>>

load_Call ==
    /\ probe.called = "no"
    /\ probe' = [probe EXCEPT !.called = "load", !.ret = load(probe.file)]
    /\ UNCHANGED <<walker, assign_list, allow_table, unit, ctx, visited, duo>>

NextCheck == check_Call \/ load_Call

SpecCheck == InitCheck /\ [][NextCheck]_vars

\* ------------------------------------------------------------ properties
\* the step runs the Before hook of a node of kind n / the After hook of one
Entered(n) == Len(ctx') = Len(ctx) + 1 /\ ctx'[Len(ctx')].node = n

Exited(n) == ctx # <<>> /\ Len(ctx') = Len(ctx) - 1 /\ Top.node = n

\* the node the step entered
EnteredArg == ctx'[Len(ctx')].arg

\* the step recorded exactly one fact / the fact it recorded
RecordedOne == Len(assign_list') = Len(assign_list) + 1

NewFact == assign_list'[Len(assign_list')]

\* the legality rule, stated on the kinds of the root and the leaf of a path
WritableRoot(kind) ==
    \/ kind.tag = "Variable"
    \/ kind.tag \in {"Port", "ModportMember"} /\ kind.direction \in {"Output", "Ref", "Inout"}

Legal(full_path) ==
    /\ full_path # <<>>
    /\ LET root == symbols[full_path[1]]
           leaf == symbols[full_path[Len(full_path)]]
       IN  \/ leaf.tag = "Variable"
           \/ leaf.tag \in {"StructMember", "UnionMember"} /\ WritableRoot(root)
           \/ leaf.tag \in {"Port", "ModportMember"}
              /\ leaf.direction \in {"Output", "Ref", "Inout"}

\* the target of an assignment node, its select lists (root first) and the
\* number of its member selectors
Target(n, arg) ==
    IF n = "identifier_statement" THEN arg.expression_identifier
    ELSE arg.hierarchical_identifier

TargetSelects(n, arg) ==
    IF n = "identifier_statement"
    THEN LET x == arg.expression_identifier
         IN  IF x.group = "Scoped" THEN <<x.expression_identifier_scoped_list0>>
             ELSE <<x.expression_identifier_member_list>> \o
                  [i \in DOMAIN x.expression_identifier_member_list0 |->
                       x.expression_identifier_member_list0[i].list0_list]
    ELSE LET x == arg.hierarchical_identifier
         IN  <<x.hierarchical_identifier_list>> \o
             [i \in DOMAIN x.hierarchical_identifier_list0 |->
                  x.hierarchical_identifier_list0[i].list0_list]

TargetMembers(n, arg) ==
    IF n = "identifier_statement"
    THEN Len(arg.expression_identifier.expression_identifier_member_list0)
    ELSE Len(arg.hierarchical_identifier.hierarchical_identifier_list0)

HasIndex(n, arg) ==
    \E i \in DOMAIN TargetSelects(n, arg) : TargetSelects(n, arg)[i] # <<>>

\* the step enters an assignment (identifier assignment statement or
\* continuous assign declaration) of kind n
EnteredAssignment(n) ==
    /\ Entered(n)
    /\ n = "identifier_statement" => EnteredArg.group = "Assignment"

AssignmentNodes == {"identifier_statement", "assign_declaration"}

\* C1: after the After hook of a complete top-level declaration the position
\* stack is as deep as it was before the declaration's Before hook.
StackBalance ==
    [][(Len(ctx) = 1 /\ ctx' = <<>>)
          => Len(walker'.assign_position) = ctx[1].base]_vars

\* C2: inside every open if / if_reset / generate-if the branch item of the
\* construct carries the number of the arm the walk is in, and the item of
\* every open case arm carries the number of that arm.
BranchIndexIsArm ==
    \A i \in DOMAIN ctx :
        LET p == walker.assign_position
        IN  /\ ctx[i].node \in {"if_statement", "if_reset_statement",
                                "module_if_declaration"}
               => /\ Len(p) >= ctx[i].base + 2
                  /\ p[ctx[i].base + 2].tag \in {"StatementBranchItem",
                                                 "DeclarationBranchItem"}
                  /\ p[ctx[i].base + 2].index = ctx[i].arm
            /\ ctx[i].node = "case_item"
               => /\ Len(p) >= ctx[i].base + 1
                  /\ p[ctx[i].base + 1].tag = "StatementBranchItem"
                  /\ p[ctx[i].base + 1].index = ctx[i].arm

\* a conditional expression is open
OpenIfExpression == \E i \in DOMAIN ctx : ctx[i].node = "if_expression"

\* C3: an else visited while a conditional expression is open changes neither
\* the position stack nor the branch index; an else visited while none is
\* open rewrites the top frame to the item of the running branch index and
\* advances the index.
ElseGated ==
    [][Entered("else") =>
          LET p == walker.assign_position
              q == walker'.assign_position
          IN  IF OpenIfExpression
              THEN q = p /\ walker'.branch_index = walker.branch_index
              ELSE /\ Len(q) = Len(p)
                   /\ \A i \in 1 .. Len(p) - 1 : q[i] = p[i]
                   /\ q[Len(q)].tag \in {"StatementBranchItem", "DeclarationBranchItem"}
                   /\ q[Len(q)].index = walker.branch_index
                   /\ q[Len(q)].token = "else"
                   /\ walker'.branch_index = walker.branch_index + 1]_vars

ElseGatedWitness ==
    /\ Len(ctx) >= 3
    /\ Top.node = "else"
    /\ ctx[Len(ctx) - 1].node = "if_expression"
    /\ ctx[Len(ctx) - 2].node = "if_statement"
    /\ last(walker.assign_position) = StatementBranchItem("if", 0, "If")
    /\ walker.branch_index = 1

\* C4: can_assign returns true exactly for the paths the legality rule admits.
LegalityRule ==
    (probe.called /\ \A i \in DOMAIN probe.full_path : probe.full_path[i] \in SymbolIds)
        => (probe.ret <=> Legal(probe.full_path))

LegalityRuleWitness ==
    /\ probe.called
    /\ probe.full_path = <<pIn, sM>>
    /\ ~probe.ret

LegalityOutcome ==
    [][\A n \in AssignmentNodes :
          (/\ EnteredAssignment(n)
           /\ Target(n, EnteredArg).resolve.ok
           /\ Target(n, EnteredArg).resolve.found = "Symbol")
              => LET t == Target(n, EnteredArg)
                     full_path == t.resolve.full_path
                 IN  IF Legal(full_path)
                     THEN /\ RecordedOne
                          /\ SubSeq(assign_list', 1, Len(assign_list)) = assign_list
                          /\ NewFact.path = full_path
                          /\ walker'.errors = walker.errors
                     ELSE /\ assign_list' = assign_list
                          /\ walker'.errors =
                                Append(walker.errors,
                                       [error |-> "invalid_assignment",
                                        kind |-> symbols[full_path[Len(full_path)]].tag,
                                        identifier |-> t.identifier])]_vars

LegalityOutcomeWitness ==
    /\ ctx # <<>>
    /\ Top.node = "identifier_statement"
    /\ Top.arg.group = "Assignment"
    /\ Top.arg.expression_identifier.resolve = ResolveFound(<<pIn>>)
    /\ assign_list = <<>>
    /\ walker.errors = << [error |-> "invalid_assignment", kind |-> "Port",
                           identifier |-> "p"] >>

\* the step records the fact of a plain assignment standing directly in an
\* arm of the open node
AssignedIn(node) ==
    /\ ctx # <<>>
    /\ Top.node = node
    /\ EnteredAssignment("identifier_statement")
    /\ RecordedOne

\* C7: the fact of a plain assignment in arm k of an if (if_reset) statement
\* with n else-if arms holds, at the depth of the statement, a StatementBranch
\* of n + 2 branches with a default (n + 1 without, when there is no final
\* else) directly followed by the StatementBranchItem of index k, tagged If
\* (IfReset) for k = 0 and Else for k >= 1; no diagnostic is raised.
IfElseRecording ==
    [][\A node \in {"if_statement", "if_reset_statement"} :
          AssignedIn(node)
              => LET f == Top
                     type == IF node = "if_statement" THEN "If" ELSE "IfReset"
                     pos == NewFact.position
                 IN  /\ Len(pos) >= f.base + 2
                     /\ pos[f.base + 1].tag = "StatementBranch"
                     /\ pos[f.base + 1].type = type
                     /\ pos[f.base + 1].branches =
                            f.arg.list0_len + (IF f.arg.opt THEN 2 ELSE 1)
                     /\ pos[f.base + 1].has_default = f.arg.opt
                     /\ pos[f.base + 2].tag = "StatementBranchItem"
                     /\ pos[f.base + 2].index = f.arm
                     /\ pos[f.base + 2].type = (IF f.arm = 0 THEN type ELSE "Else")
                     /\ walker'.errors = walker.errors]_vars

\* C8: the fact of a plain assignment in arm j of a case statement of m arms
\* holds, at the depth of the statement, a StatementBranch of m branches whose
\* has-default tells whether an arm is a default arm, directly followed by
\* the StatementBranchItem of index j tagged Case; the item is pushed when
\* the arm is entered and popped when it is left.
CaseRecording ==
    [][/\ AssignedIn("case_item")
          => LET f == Top
                 c == ctx[Len(ctx) - 1]
                 pos == NewFact.position
             IN  /\ Len(pos) >= c.base + 2
                 /\ pos[c.base + 1] =
                        StatementBranch("case", Len(c.arg.case_statement_list),
                                        \E i \in DOMAIN c.arg.case_statement_list :
                                            c.arg.case_statement_list[i] = "Defaul",
                                        FALSE, "Case")
                 /\ pos[c.base + 2].tag = "StatementBranchItem"
                 /\ pos[c.base + 2].type = "Case"
                 /\ pos[c.base + 2].index = f.arm
       /\ Entered("case_item")
          => /\ Len(walker'.assign_position) = Len(walker.assign_position) + 1
             /\ last(walker'.assign_position).tag = "StatementBranchItem"
       /\ Exited("case_item")
          => walker'.assign_position =
                 SubSeq(walker.assign_position, 1, Top.base)]_vars

\* the resolution of a reference misses: it fails or yields External
Miss(reference) == ~reference.resolve.ok \/ reference.resolve.found = "External"

\* the reference a resolving node resolves
Resolved(n, arg) ==
    CASE n = "identifier_statement" -> arg.expression_identifier
      [] n = "assign_declaration" -> arg.hierarchical_identifier
      [] OTHER -> arg.identifier

ResolvingNodes ==
    {"let_statement", "for_statement", "identifier_statement", "let_declaration",
     "assign_declaration", "module_for_declaration", "inst_declaration"}

\* every connection target of an instance misses
ConnectsMiss(arg) ==
    LET sym == arg.identifier.resolve
    IN  /\ sym.ok /\ sym.found = "Symbol" /\ sym.symbol.kind.tag = "Instance"
        /\ \A name \in DOMAIN sym.symbol.kind.connects :
               Miss(sym.symbol.kind.connects[name])

\* C9: a resolving hook whose reference misses (and an instance declaration
\* whose connection targets all miss) records no fact, appends no diagnostic
\* and leaves the position stack unchanged.
MissSkipped ==
    [][\A n \in ResolvingNodes :
          (/\ EnteredAssignment(n)
           /\ \/ Miss(Resolved(n, EnteredArg))
              \/ n = "inst_declaration" /\ ConnectsMiss(EnteredArg))
              => /\ assign_list' = assign_list
                 /\ walker'.errors = walker.errors
                 /\ walker'.assign_position = walker.assign_position]_vars

\* C10: every step leaves the facts recorded so far as they were, in their
\* order, and puts the facts it records after them.
FactsAppendOnly ==
    [][/\ Len(assign_list') >= Len(assign_list)
       /\ \A i \in DOMAIN assign_list : assign_list'[i] = assign_list[i]]_vars

FactsAppendOnlyWitness ==
    /\ ctx # <<>>
    /\ Top.node = "else"
    /\ walker.in_if_expression = 0
    /\ Len(assign_list) = 1
    /\ Len(assign_list[1].position) > Len(walker.assign_position)
    /\ assign_list[1].position[Len(walker.assign_position)].index = 0
    /\ last(walker.assign_position).index = 1

\* ------------------------------------------------- instance connections
\* the facts the step recorded, in their order
NewFacts == SubSeq(assign_list', Len(assign_list) + 1, Len(assign_list'))

\* the step enters an instance declaration whose identifier resolves to an
\* Instance symbol
EnteredInstance ==
    /\ Entered("inst_declaration")
    /\ EnteredArg.identifier.resolve.ok
    /\ EnteredArg.identifier.resolve.found = "Symbol"
    /\ EnteredArg.identifier.resolve.symbol.kind.tag = "Instance"

\* the Instance symbol of a declaration, its connections and the resolution
\* of its type
InstanceOf(arg) == arg.identifier.resolve.symbol.kind

ConnectsOf(arg) == InstanceOf(arg).connects

TypeOf(arg) == InstanceOf(arg).type_name.resolve

TypeIs(arg, tag) ==
    /\ TypeOf(arg).ok
    /\ TypeOf(arg).found = "Symbol"
    /\ TypeOf(arg).symbol.kind.tag = tag

\* the connections of `arg` with a non-empty target / whose target moreover
\* resolves to a symbol / whose target resolves to External
NonEmptyConnects(arg) == {n \in DOMAIN ConnectsOf(arg) : ConnectsOf(arg)[n].path # <<>>}

SymbolConnects(arg) ==
    {n \in NonEmptyConnects(arg) :
        ConnectsOf(arg)[n].resolve.ok /\ ConnectsOf(arg)[n].resolve.found = "Symbol"}

ExternalConnects(arg) ==
    {n \in NonEmptyConnects(arg) :
        ConnectsOf(arg)[n].resolve.ok /\ ConnectsOf(arg)[n].resolve.found = "External"}

\* the facts recorded are one Declaration{Inst} fact, not partial, under the
\* live stack, for the target of each connection in S and nothing else
InstFactsFor(arg, S) ==
    /\ Len(NewFacts) = Cardinality(S)
    /\ \A n \in S : \E i \in DOMAIN NewFacts :
           NewFacts[i].path = ConnectsOf(arg)[n].resolve.full_path
    /\ \A i \in DOMAIN NewFacts :
           /\ \E n \in S : NewFacts[i].path = ConnectsOf(arg)[n].resolve.full_path
           /\ ~NewFacts[i].partial
           /\ NewFacts[i].position =
                  Append(walker.assign_position, Declaration("inst", "Inst"))

\* C11 as stated: an instance whose type is unresolved or an opaque
\* SystemVerilog module records one Declaration{Inst} fact for every
\* connection with a non-empty target.
UnknownDirectionRecordsAll ==
    [][(/\ EnteredInstance
        /\ ~TypeOf(EnteredArg).ok \/ TypeIs(EnteredArg, "SystemVerilog"))
          => Len(NewFacts) = Cardinality(NonEmptyConnects(EnteredArg))]_vars

\* C11 amended: an instance whose type is an opaque SystemVerilog module
\* records one Declaration{Inst} fact, not partial, for every connection with
\* a non-empty target that resolves to a symbol, whatever the connection's
\* name, and none for a target whose resolution fails; an instance whose type
\* does not resolve records no fact.
OpaqueRecordsResolved ==
    [][(EnteredInstance /\ ExternalConnects(EnteredArg) = {})
          => /\ TypeIs(EnteredArg, "SystemVerilog")
                => InstFactsFor(EnteredArg, SymbolConnects(EnteredArg))
             /\ ~TypeOf(EnteredArg).ok => assign_list' = assign_list]_vars

OpaqueRecordsResolvedWitness ==
    /\ ctx # <<>>
    /\ Top.node = "inst_declaration"
    /\ Top.arg.identifier.resolve.ok
    /\ Top.arg.identifier.resolve.found = "Symbol"
    /\ TypeIs(Top.arg, "SystemVerilog")
    /\ DOMAIN ConnectsOf(Top.arg) = {"x"}
    /\ Len(assign_list) = 1
    /\ assign_list[1].path = <<pIn>>
    /\ assign_list[1].position = <<Declaration("inst", "Inst")>>

\* the connections of `arg` named after a port of the instantiated module
\* whose direction is Output, Ref or Inout
WrittenPorts(arg) ==
    LET ports == TypeOf(arg).symbol.kind.ports
    IN  {n \in DOMAIN ConnectsOf(arg) :
            \E i \in DOMAIN ports :
                /\ ports[i].name = n
                /\ ports[i].direction \in {"Output", "Ref", "Inout"}}

\* the connections of `arg` with a non-empty target that resolves
ResolvableConnects(arg) ==
    {n \in NonEmptyConnects(arg) : ConnectsOf(arg)[n].resolve.ok}

\* C12: an instance of a known module records one Declaration{Inst} fact for
\* each connection with a non-empty, resolvable target that is named after a
\* port of direction Output, Ref or Inout, and none for other connections
\* (Input ports, names that are not ports); no step of the instance hook
\* appends a diagnostic.
KnownDirectionRecordsOutputs ==
    [][/\ (EnteredInstance /\ TypeIs(EnteredArg, "Module"))
          => InstFactsFor(EnteredArg,
                          ResolvableConnects(EnteredArg) \cap WrittenPorts(EnteredArg))
       /\ (Entered("inst_declaration") \/ Exited("inst_declaration"))
          => walker'.errors = walker.errors]_vars

KnownDirectionRecordsOutputsWitness ==
    /\ ctx # <<>>
    /\ Top.node = "inst_declaration"
    /\ Top.arg.identifier.resolve.ok
    /\ Top.arg.identifier.resolve.found = "Symbol"
    /\ TypeIs(Top.arg, "Module")
    /\ DOMAIN ConnectsOf(Top.arg) = {"i", "o"}
    /\ ConnectsOf(Top.arg)["i"].path = <<"a">>
    /\ ConnectsOf(Top.arg)["o"].path = <<"p">>
    /\ Len(assign_list) = 1
    /\ assign_list[1].path = <<pIn>>
    /\ walker.errors = <<>>

\* s is a prefix of t
IsPrefix(s, t) == Len(s) <= Len(t) /\ SubSeq(t, 1, Len(s)) = s

\* C13: no hook call aborts the walk, the diagnostics list only grows (what
\* it held stays, in place), and once a diagnostic has been raised a later
\* legal assignment still records its fact and a later illegal assignment
\* still appends its own diagnostic.
DiagnosticsAccumulate ==
    [][/\ ~walker'.panicked
       /\ IsPrefix(walker.errors, walker'.errors)
       /\ \A n \in AssignmentNodes :
             (/\ walker.errors # <<>>
              /\ EnteredAssignment(n)
              /\ Target(n, EnteredArg).resolve.ok
              /\ Target(n, EnteredArg).resolve.found = "Symbol")
                 => LET t == Target(n, EnteredArg)
                        full_path == t.resolve.full_path
                    IN  IF Legal(full_path)
                        THEN /\ RecordedOne
                             /\ NewFact.path = full_path
                             /\ Len(walker'.errors) = Len(walker.errors)
                        ELSE /\ Len(walker'.errors) = Len(walker.errors) + 1
                             /\ walker'.errors[Len(walker'.errors)].identifier
                                   = t.identifier]_vars

DiagnosticsAccumulateWitness ==
    /\ ctx # <<>>
    /\ Top.node = "identifier_statement"
    /\ Top.arg.group = "Assignment"
    /\ Top.arg.expression_identifier.resolve = ResolveFound(<<vA>>)
    /\ Len(walker.errors) = 1
    /\ walker.errors[1].identifier = "p"
    /\ Len(assign_list) = 1
    /\ assign_list[1].path = <<vA>>
    /\ ~walker.panicked

\* the family of branch item an if construct pushes
ItemTagOf(node) ==
    IF node = "module_if_declaration" THEN "DeclarationBranchItem"
    ELSE "StatementBranchItem"

\* C17: an else visited while no conditional expression is open finds the
\* branch item of its own construct on top of a non-empty stack (two frames
\* above the depth the construct was entered at), replaces only that frame
\* with an item of the same family carrying the branch index (tagged Else for
\* statements), and advances the index by one; no hook aborts on an empty
\* stack.
ElseRewritesOwnItem ==
    [][/\ ~walker'.panicked
       /\ (Entered("else") /\ ~OpenIfExpression)
             => LET p == walker.assign_position
                    q == walker'.assign_position
                IN  /\ p # <<>>
                    /\ Len(p) = Top.base + 2
                    /\ p[Len(p)].tag = ItemTagOf(Top.node)
                    /\ Len(q) = Len(p)
                    /\ \A i \in 1 .. Len(p) - 1 : q[i] = p[i]
                    /\ q[Len(q)] =
                          IF Top.node = "module_if_declaration"
                          THEN DeclarationBranchItem("else", walker.branch_index)
                          ELSE StatementBranchItem("else", walker.branch_index, "Else")
                    /\ walker'.branch_index = walker.branch_index + 1]_vars

\* the constructs that push a frame only around their add_assign call
LeafNodes ==
    {"let_statement", "for_statement", "module_for_declaration",
     "identifier_statement", "let_declaration", "assign_declaration",
     "inst_declaration"}

\* C18: the Before and After hooks of a let statement, for statement,
\* generate-for, identifier assignment, let declaration, assign declaration
\* and instance declaration leave the live position stack and the branch
\* index as they found them, whether or not they record a fact or raise a
\* diagnostic; each fact they record holds the live stack plus one Statement
\* or Declaration frame.
LeafFramesTransient ==
    [][\A n \in LeafNodes :
          (Entered(n) \/ Exited(n))
             => /\ walker'.assign_position = walker.assign_position
                /\ walker'.branch_index = walker.branch_index
                /\ \A i \in DOMAIN NewFacts :
                      LET position == NewFacts[i].position
                      IN  /\ Len(position) = Len(walker.assign_position) + 1
                          /\ SubSeq(position, 1, Len(position) - 1)
                                = walker.assign_position
                          /\ last(position).tag \in {"Statement", "Declaration"}]_vars

LeafFramesTransientWitness ==
    /\ Len(ctx) >= 2
    /\ Top.node = "let_statement"
    /\ ctx[Len(ctx) - 1].node = "if_reset_statement"
    /\ Len(walker.assign_position) = 3
    /\ last(walker.assign_position).tag = "StatementBranchItem"
    /\ Len(assign_list) = 1
    /\ Len(assign_list[1].position) = 4
    /\ SubSeq(assign_list[1].position, 1, 3) = walker.assign_position
    /\ assign_list[1].position[4].tag = "Statement"

\* the constructs that introduce a binding
BindingNodes == {"let_statement", "for_statement", "module_for_declaration"}

\* C19: a let statement, for statement or generate-for whose target resolves
\* records exactly one fact, not partial, whose innermost frame is a Statement
\* that is not resettable, and raises no diagnostic, whatever kind of symbol
\* the target is; every fact recorded by an identifier assignment statement
\* has a resettable Statement as innermost frame.
BindingWritesUnchecked ==
    [][/\ \A n \in BindingNodes :
             (Entered(n) /\ EnteredArg.identifier.resolve.ok)
                => /\ RecordedOne
                   /\ SubSeq(assign_list', 1, Len(assign_list)) = assign_list
                   /\ NewFact.path = EnteredArg.identifier.resolve.full_path
                   /\ ~NewFact.partial
                   /\ last(NewFact.position).tag = "Statement"
                   /\ ~last(NewFact.position).resettable
                   /\ walker'.errors = walker.errors
       /\ Entered("identifier_statement")
             => \A i \in DOMAIN NewFacts :
                   /\ last(NewFacts[i].position).tag = "Statement"
                   /\ last(NewFacts[i].position).resettable]_vars

BindingWritesUncheckedWitness ==
    /\ ctx # <<>>
    /\ Top.node = "let_statement"
    /\ Top.arg.identifier.resolve = ResolveFound(<<pIn>>)
    /\ Len(assign_list) = 1
    /\ assign_list[1].path = <<pIn>>
    /\ ~assign_list[1].partial
    /\ last(assign_list[1].position) = Statement("=", FALSE)
    /\ walker.errors = <<>>

\* the StatementBranch frame the entered node pushed: the first frame above
\* the stack it was entered on
PushedBranch == walker'.assign_position[Len(walker.assign_position) + 1]

\* C20: the StatementBranch frame pushed for an if_reset statement carries,
\* as allow-missing-reset flag, whether the suppression table holds the
\* missing-reset-statement diagnostic at entry; the StatementBranch frame
\* pushed for an if statement or a case statement carries FALSE whatever the
\* table holds.
AllowMissingResetFlag ==
    [][/\ Entered("if_reset_statement")
             => /\ Len(walker'.assign_position) > Len(walker.assign_position)
                /\ PushedBranch.tag = "StatementBranch"
                /\ PushedBranch.allow_missing_reset_statement
                      = ("missing_reset_statement" \in allow_table)
       /\ (Entered("if_statement") \/ Entered("case_statement"))
             => /\ Len(walker'.assign_position) > Len(walker.assign_position)
                /\ PushedBranch.tag = "StatementBranch"
                /\ ~PushedBranch.allow_missing_reset_statement]_vars

AllowMissingResetFlagWitness ==
    /\ ctx # <<>>
    /\ Top.node = "if_reset_statement"
    /\ "missing_reset_statement" \in allow_table
    /\ Len(walker.assign_position) = Top.base + 2
    /\ walker.assign_position[Top.base + 1].tag = "StatementBranch"
    /\ walker.assign_position[Top.base + 1].type = "IfReset"
    /\ walker.assign_position[Top.base + 1].allow_missing_reset_statement

\* the ancestors of the start directory (as lengths of the prefix of the
\* path) whose Veryl.toml is a regular file
ProjectDirs ==
    {n \in 0 .. Len(probe.from) :
        probe.fs[Append(SubSeq(probe.from, 1, n), "Veryl.toml")] = "file"}

\* C15: search_from returns FileNotFound exactly when no directory on the
\* ancestor chain of the start directory holds a regular file Veryl.toml, and
\* otherwise the path of Veryl.toml in the nearest such directory (the one no
\* deeper ancestor of which holds one).
SearchFindsNearest ==
    probe.called =>
        IF ProjectDirs = {}
        THEN ~probe.ret.ok /\ probe.ret.error = "FileNotFound"
        ELSE /\ probe.ret.ok
             /\ \E n \in ProjectDirs :
                   /\ \A m \in ProjectDirs : m <= n
                   /\ probe.ret.value = Append(SubSeq(probe.from, 1, n), "Veryl.toml")

SearchFindsNearestWitness ==
    /\ probe.called
    /\ probe.from = <<"a", "b">>
    /\ probe.fs[<<"a", "b", "Veryl.toml">>] = "dir"
    /\ probe.fs[<<"a", "Veryl.toml">>] = "file"
    /\ probe.fs[<<"Veryl.toml">>] = "file"
    /\ probe.ret = Ok(<<"a", "Veryl.toml">>)

\* the naming rule: a letter or underscore, then letters, digits, underscores
ValidName(name) ==
    /\ name # <<>>
    /\ name[1] \in Letters \cup {"_"}
    /\ \A i \in 2 .. Len(name) : name[i] \in Letters \cup Digits \cup {"_"}

IsInvalidProjectName(ret, name) ==
    /\ ~ret.ok
    /\ ret.error = MetadataError("InvalidProjectName", name)

\* C16: check returns InvalidProjectName carrying the name exactly when the
\* project name breaks the naming rule; load of a file that parses does the
\* same, and load never returns a Metadata whose name breaks the rule (what it
\* returns carries the path it was loaded from).
NameValidated ==
    LET name == probe.file.project.name
    IN  /\ probe.called = "check"
           => (IsInvalidProjectName(probe.ret, name) <=> ~ValidName(name))
        /\ (probe.called = "load" /\ probe.file.state = "parsed")
           => (IsInvalidProjectName(probe.ret, name) <=> ~ValidName(name))
        /\ (probe.called = "load" /\ probe.ret.ok)
           => /\ ValidName(probe.ret.value.project.name)
              /\ probe.ret.value.metadata_path = probe.file.path

NameValidatedWitness ==
    /\ probe.called = "load"
    /\ probe.file.state = "parsed"
    /\ probe.file.project.name = <<"0", "a">>
    /\ probe.file.project.license = "MIT OR"
    /\ IsInvalidProjectName(probe.ret, <<"0", "a">>)

\* the fields of a walker instance that its hooks work on
OwnFields(self) ==
    <<self.assign_position, self.branch_index, self.in_if_expression, self.errors>>

\* C14: with the hook calls of two walker instances interleaved in any
\* order, a hook call changes nothing of the other instance (its position
\* stack, branch index, conditional-expression depth and diagnostics) nor of
\* the other's walk, and records its facts under the position stack of the
\* instance it is made on without touching the facts recorded before; when
\* the calls move to the other instance, that instance has the fields its own
\* last call left. Every hook call therefore starts from the state the
\* instance would be in running alone and records the same snapshots and
\* diagnostics.
WalkerIsolation ==
    [][duo.on =>
          IF duo'.id # duo.id
          THEN /\ OwnFields(walker') = OwnFields(duo.parked.walker)
               /\ OwnFields(duo'.parked.walker) = OwnFields(walker)
               /\ ctx' = duo.parked.ctx
               /\ assign_list' = assign_list
               /\ duo'.owners = duo.owners
          ELSE /\ duo'.parked = duo.parked
               /\ IsPrefix(assign_list, assign_list')
               /\ IsPrefix(duo.owners, duo'.owners)
               /\ Len(duo'.owners) = Len(assign_list')
               /\ \A i \in DOMAIN NewFacts :
                     /\ duo'.owners[Len(assign_list) + i] = duo.id
                     /\ SubSeq(NewFacts[i].position, 1, Len(NewFacts[i].position) - 1)
                           = walker.assign_position]_vars

WalkerIsolationWitness ==
    /\ duo.on
    /\ duo.id = 1
    /\ ctx # <<>>
    /\ Top.node = "module_if_declaration"
    /\ walker.branch_index = 1
    /\ last(walker.assign_position) = DeclarationBranchItem("if", 0)
    /\ duo.parked.ctx # <<>>
    /\ duo.parked.ctx[Len(duo.parked.ctx)].node = "else"
    /\ duo.parked.walker.branch_index = 2
    /\ last(duo.parked.walker.assign_position) = StatementBranchItem("else", 1, "Else")

BranchTags == {"StatementBranch", "DeclarationBranch"}

ItemTags == {"StatementBranchItem", "DeclarationBranchItem"}

\* the branch frames below frame j of a position
BranchesBelow(position, j) == {k \in 1 .. j - 1 : position[k].tag \in BranchTags}

\* C21: in every recorded position each branch item has an index smaller
\* than the branch count of the nearest branch frame below it.
IndexBelowBranchCount ==
    \A f \in DOMAIN assign_list :
        LET position == assign_list[f].position
        IN  \A j \in DOMAIN position :
                (position[j].tag \in ItemTags /\ BranchesBelow(position, j) # {})
                   => LET k == CHOOSE k \in BranchesBelow(position, j) :
                                  \A m \in BranchesBelow(position, j) : m <= k
                      IN  position[j].index < position[k].branches

\* the item tag of a branch tag's family
ItemOf(tag) ==
    IF tag = "StatementBranch" THEN "StatementBranchItem" ELSE "DeclarationBranchItem"

WellNested(position) ==
    \A j \in DOMAIN position :
        /\ position[j].tag \in BranchTags
              => j < Len(position) /\ position[j + 1].tag = ItemOf(position[j].tag)
        /\ position[j].tag \in ItemTags
              => /\ j > 1
                 /\ position[j - 1].tag \in BranchTags
                 /\ ItemOf(position[j - 1].tag) = position[j].tag

\* C22: in every recorded position each branch frame is directly followed by
\* an item frame of its family and each item frame is directly preceded by a
\* branch frame of its family, so no branch frame of a construct already
\* exited is left in a later snapshot.
SnapshotsWellNested ==
    \A f \in DOMAIN assign_list : WellNested(assign_list[f].position)

\* a frame pushed by a recording hook around its add_assign call
IsLeafFrame(frame) ==
    \/ frame.tag = "Statement"
    \/ frame.tag = "Declaration" /\ frame.type \in {"Let", "Assign", "Inst"}

\* C23: every position handed to add_assign is non-empty, ends in a leaf
\* frame (a Statement, or a Declaration of kind Let, Assign or Inst) and
\* holds below that frame exactly the live stack the recording hook was
\* called with; no recorded position ends in a branch, a branch item or an
\* AlwaysFf / AlwaysComb / Function frame.
InnermostFrameIsLeaf ==
    [][\A i \in DOMAIN NewFacts :
          LET position == NewFacts[i].position
          IN  /\ position # <<>>
              /\ IsLeafFrame(last(position))
              /\ SubSeq(position, 1, Len(position) - 1) = walker.assign_position]_vars

InnermostFrameIsLeafWitness ==
    /\ ctx # <<>>
    /\ Top.node = "identifier_statement"
    /\ Len(walker.assign_position) = 3
    /\ walker.assign_position[2].tag = "DeclarationBranchItem"
    /\ walker.assign_position[3] = Declaration("always_comb", "AlwaysComb")
    /\ Len(assign_list) = 1
    /\ assign_list[1].position = Append(walker.assign_position, Statement("=", TRUE))

====
